---------------------------- MODULE Spec2Model ----------------------------
(***************************************************************************)
(* Model of src/main.py: the "LLM Code Deployer" FastAPI service.          *)
(*                                                                         *)
(* A Python str is a sequence of one-character strings; a fixed piece of   *)
(* text from the source (an f-string's literal part) is kept as one        *)
(* element, so concatenation is \o and "x in s" is membership of an        *)
(* element.                                                                *)
(***************************************************************************)
EXTENDS Integers, Sequences, FiniteSets, TLC

(***************************************************************************)
(* Bounds of the model.                                                    *)
(***************************************************************************)
MaxSecretLen == 9
MaxNameLen == 2
MaxProjectIdLen == 2
MaxAuthEmailLen == 3

(***************************************************************************)
(* Program constants.                                                      *)
(***************************************************************************)
SecretMinLength == 8
NameMinLength == 1
NameMaxLength == 100
HashModulus == 100000

HTTP_200_OK == 200
HTTP_400_BAD_REQUEST == 400
HTTP_401_UNAUTHORIZED == 401
HTTP_404_NOT_FOUND == 404
HTTP_405_METHOD_NOT_ALLOWED == 405
HTTP_422_UNPROCESSABLE_ENTITY == 422
HTTP_500_INTERNAL_SERVER_ERROR == 500

\* Optional[str]
None == [some |-> FALSE, val |-> <<>>]
Some(s) == [some |-> TRUE, val |-> s]

(***************************************************************************)
(* Strings.                                                                *)
(***************************************************************************)
SeqsUpTo(S, n) == UNION {[1..k -> S] : k \in 0..n}

Contains(s, c) == \E i \in 1..Len(s) : s[i] = c

IsSuffix(t, s) ==
    /\ Len(t) <= Len(s)
    /\ \A k \in 1..Len(t) : s[Len(s) - Len(t) + k] = t[k]

\* t occurs in s as a contiguous run
IsInfix(t, s) ==
    \E i \in 0..(Len(s) - Len(t)) : \A k \in 1..Len(t) : s[i + k] = t[k]

Whitespace == {" ", "\n", "\t"}

RECURSIVE LStrip(_)
LStrip(s) == IF s # <<>> /\ Head(s) \in Whitespace THEN LStrip(Tail(s)) ELSE s

RECURSIVE RStrip(_)
RStrip(s) ==
    IF s # <<>> /\ s[Len(s)] \in Whitespace
    THEN RStrip(SubSeq(s, 1, Len(s) - 1))
    ELSE s

\* str.strip()
Strip(s) == RStrip(LStrip(s))

Digit(d) == CASE d = 0 -> "0" [] d = 1 -> "1" [] d = 2 -> "2" [] d = 3 -> "3"
              [] d = 4 -> "4" [] d = 5 -> "5" [] d = 6 -> "6" [] d = 7 -> "7"
              [] d = 8 -> "8" [] d = 9 -> "9"

\* str(n) of a non-negative int
RECURSIVE IntToStr(_)
IntToStr(n) == IF n < 10 THEN <<Digit(n)>> ELSE IntToStr(n \div 10) \o <<Digit(n % 10)>>


(***************************************************************************)
(* Inputs: the values a client may send.                                   *)
(***************************************************************************)
EmailUser == <<"u", "@", "h", ".", "c">>
EmailOther == <<"v", "@", "h", ".", "c">>
EmailNoDot == <<"u", "@", "h">>
EmailNoAt == <<"u", "h", ".", "c">>
EmailTwoAt == <<"u", "@", "@", "h", ".", "c">>
Emails == {<<>>, EmailUser, EmailOther, EmailNoDot, EmailNoAt, EmailTwoAt}

Secrets == {[i \in 1..k |-> "s"] : k \in 0..MaxSecretLen}

\* one member of each class of [a-zA-Z0-9_-], and three characters outside it
NameAlphabet == {"a", "Z", "9", "_", "-", " ", "\n", "!"}
Names == SeqsUpTo(NameAlphabet, MaxNameLen)

Codes == {<<>>, <<"p", "a", "s", "s">>}
Usernames == {<<"o", "c", "t", "o">>}

ProjectIds == SeqsUpTo({"x", " ", "\n"}, MaxProjectIdLen)
Changes == {<<>>, <<"f", "i", "x">>}

(***************************************************************************)
(* validate_auth                                                           *)
(***************************************************************************)
validate_auth_longer(email, secret) ==
    Len(secret) > SecretMinLength /\ Contains(email, "@")

validate_auth(email, secret) ==
    Len(secret) >= SecretMinLength /\ Contains(email, "@")

(***************************************************************************)
(* The request models: pydantic's checks of the declared fields, run by    *)
(* FastAPI before the handler is called.                                   *)
(***************************************************************************)
AtPositions(e) == {i \in 1..Len(e) : e[i] = "@"}

\* a dot-separated part list: no empty part
DotAtomOk(s) ==
    /\ s # <<>>
    /\ s[1] # "." /\ s[Len(s)] # "."
    /\ \A i \in 1..(Len(s) - 1) : ~(s[i] = "." /\ s[i + 1] = ".")

\* EmailStr: local@domain, one "@", a dotted domain
IsEmailStr(e) ==
    /\ Cardinality(AtPositions(e)) = 1
    /\ LET at == CHOOSE i \in AtPositions(e) : TRUE
           local == SubSeq(e, 1, at - 1)
           domain == SubSeq(e, at + 1, Len(e))
       IN  /\ DotAtomOk(local)
           /\ DotAtomOk(domain)
           /\ Contains(domain, ".")

BuildRequestValid(r) ==
    /\ IsEmailStr(r.email)
    /\ Len(r.secret) >= SecretMinLength
    /\ Len(r.project_name) >= NameMinLength
    /\ Len(r.project_name) <= NameMaxLength
    /\ Len(r.code) >= 1

ReviseRequestValid(r) ==
    /\ IsEmailStr(r.email)
    /\ Len(r.secret) >= SecretMinLength
    /\ Len(r.project_id) >= 1
    /\ Len(r.changes) >= 1

(***************************************************************************)
(* re.match(r'^[a-zA-Z0-9_-]+$', name): "$" matches at the end of the      *)
(* string and also just before a newline that ends the string.             *)
(***************************************************************************)
NameClass == {"a", "Z", "9", "_", "-"}

AllInClass(s) == \A i \in 1..Len(s) : s[i] \in NameClass

NameMatches(name) ==
    \/ name # <<>> /\ AllInClass(name)
    \/ /\ Len(name) >= 2
       /\ name[Len(name)] = "\n"
       /\ AllInClass(SubSeq(name, 1, Len(name) - 1))

(***************************************************************************)
(* hash(email) % 100000.  The hash of a str is salted per process          *)
(* (hashSeed) and signed; % with a positive modulus is never negative.     *)
(***************************************************************************)
HashSeeds == {0, 1}
HashSpan == 1048576

CharCode(c) == CASE c = "u" -> 117 [] c = "v" -> 118 [] c = "h" -> 104
                 [] c = "c" -> 99 [] c = "@" -> 64 [] c = "." -> 46

RECURSIVE Mix(_, _)
Mix(h, s) ==
    IF s = <<>> THEN h
    ELSE Mix((h * 31 + CharCode(Head(s))) % HashSpan, Tail(s))

PyHash(seed, s) == Mix(seed * 7919 + 5381, s) - (HashSpan \div 2)

ProjectId(seed, name, email) ==
    name \o <<"-">> \o IntToStr(PyHash(seed, email) % HashModulus)

(***************************************************************************)
(* The remote API: what one HTTP call of the requests library can give     *)
(* back.  A call either returns a response (status code, body text) or     *)
(* raises (no connection).                                                 *)
(***************************************************************************)
RemoteStatuses == {200, 201, 202, 204, 404, 500}

RepoUrl == <<"https://github.com/octo/repo">>
BodyRepo == <<"{", "\"html_url\":", "\"">> \o RepoUrl \o <<"\"", "}">>
BodyEmptyObject == <<"{", "}">>
BodyList == <<"[", "]">>
BodyNotJson == <<"<html>">>
Bodies == {BodyRepo, BodyEmptyObject, BodyList, BodyNotJson}

Pending == [kind |-> "pending", status_code |-> 0, text |-> <<>>]
ConnectionError == [kind |-> "raise", status_code |-> 0,
                    text |-> <<"Connection refused">>]
Answers ==
    [kind : {"response"}, status_code : RemoteStatuses, text : Bodies]
        \cup {ConnectionError}

\* a parsed JSON value: a dict (with what .get gives for the two keys the
\* handler reads), a list, or no value (the text is not JSON)
Dict(html, pages) ==
    [ok |-> TRUE, type |-> "dict", html_url |-> html, pages_url |-> pages]
NoValue == [ok |-> FALSE, type |-> "", html_url |-> None, pages_url |-> None]

\* response.json()
JsonLoads(text) ==
    IF text = <<"{", "}">>
    THEN Dict(None, None)
    ELSE IF /\ Len(text) = 6
            /\ text[1] = "{" /\ text[2] = "\"html_url\":" /\ text[3] = "\""
            /\ text[5] = "\"" /\ text[6] = "}"
    THEN Dict(Some(<<text[4]>>), None)
    ELSE IF text = <<"[", "]">>
    THEN [ok |-> TRUE, type |-> "list", html_url |-> None, pages_url |-> None]
    ELSE NoValue

(***************************************************************************)
(* Exceptions and the results of the helpers.                              *)
(***************************************************************************)
HTTPException(code, detail) ==
    [type |-> "HTTPException", status_code |-> code, detail |-> detail]
\* any other exception e; detail is str(e)
OtherException(type, text) ==
    [type |-> type, status_code |-> 0, detail |-> text]

NoException == [type |-> "", status_code |-> 0, detail |-> <<>>]
Return(v) == [raised |-> FALSE, exc |-> NoException, value |-> v]
Raise(e) == [raised |-> TRUE, exc |-> e, value |-> NoValue]

JSONDecodeError == OtherException("JSONDecodeError", <<"Expecting value">>)
AttributeError ==
    OtherException("AttributeError", <<"'list' object has no attribute 'get'">>)

\* the part of a helper after its HTTP call returned a response
ParsedBody(answer) ==
    IF JsonLoads(answer.text).ok
    THEN Return(JsonLoads(answer.text))
    ELSE Raise(JSONDecodeError)

create_github_repo_any_2xx(answer) ==
    IF answer.kind = "raise"
    THEN Raise(OtherException("ConnectionError", answer.text))
    ELSE IF answer.status_code \in 200..299
    THEN ParsedBody(answer)
    ELSE Raise(HTTPException(HTTP_500_INTERNAL_SERVER_ERROR,
                   <<"Failed to create GitHub repository: ">> \o answer.text))

create_github_repo(answer) ==
    IF answer.kind = "raise"
    THEN Raise(OtherException("ConnectionError", answer.text))
    ELSE IF answer.status_code = 201
    THEN ParsedBody(answer)
    ELSE Raise(HTTPException(HTTP_500_INTERNAL_SERVER_ERROR,
                   <<"Failed to create GitHub repository: ">> \o answer.text))

push_code_to_github_no_body(answer) ==
    IF answer.kind = "raise"
    THEN Raise(OtherException("ConnectionError", answer.text))
    ELSE IF answer.status_code \in {200, 201}
    THEN ParsedBody(answer)
    ELSE Raise(HTTPException(HTTP_500_INTERNAL_SERVER_ERROR,
                   <<"Failed to push code to GitHub">>))

push_code_to_github(answer) ==
    IF answer.kind = "raise"
    THEN Raise(OtherException("ConnectionError", answer.text))
    ELSE IF answer.status_code \in {200, 201}
    THEN ParsedBody(answer)
    ELSE Raise(HTTPException(HTTP_500_INTERNAL_SERVER_ERROR,
                   <<"Failed to push code to GitHub: ">> \o answer.text))

PagesUrl(repo_name, username) ==
    <<"https://">> \o username \o <<".github.io/">> \o repo_name \o <<"/">>

enable_github_pages_strict(answer, repo_name, username) ==
    IF answer.kind = "raise"
    THEN Raise(OtherException("ConnectionError", answer.text))
    ELSE IF answer.status_code \in {200, 201, 204}
    THEN Return(Dict(None, Some(PagesUrl(repo_name, username))))
    ELSE Raise(HTTPException(HTTP_500_INTERNAL_SERVER_ERROR,
                   <<"Failed to enable GitHub Pages: ">> \o answer.text))

enable_github_pages(answer, repo_name, username) ==
    IF answer.kind = "raise"
    THEN Raise(OtherException("ConnectionError", answer.text))
    ELSE IF answer.status_code \in {200, 201, 204}
    THEN Return(Dict(None, Some(PagesUrl(repo_name, username))))
    ELSE Return(Dict(None, None))

(***************************************************************************)
(* HTTP requests and responses.                                            *)
(***************************************************************************)
Blank == <<>>

BuildRequests ==
    [method : {"POST"}, path : {"/build"}, email : Emails, secret : Secrets,
     project_name : Names, code : Codes, github_username : Usernames,
     project_id : {Blank}, changes : {Blank}]

ReviseRequests ==
    [method : {"POST"}, path : {"/revise"}, email : Emails, secret : Secrets,
     project_name : {Blank}, code : {Blank}, github_username : {Blank},
     project_id : ProjectIds, changes : Changes]

\* requests without a body
BareRequests ==
    [method : {"GET", "POST"}, path : {"/", "/health", "/build", "/revise"},
     email : {Blank}, secret : {Blank}, project_name : {Blank}, code : {Blank},
     github_username : {Blank}, project_id : {Blank}, changes : {Blank}]

NoRequest ==
    [method |-> "", path |-> "", email |-> Blank, secret |-> Blank,
     project_name |-> Blank, code |-> Blank, github_username |-> Blank,
     project_id |-> Blank, changes |-> Blank]

\* the @app.get / @app.post decorators; no route sets a status code, so a
\* handler that returns is answered with 200
Routes ==
    {[method |-> "GET", path |-> "/", endpoint |-> "root",
      status_code |-> HTTP_200_OK],
     [method |-> "POST", path |-> "/build", endpoint |-> "build_project",
      status_code |-> HTTP_200_OK],
     [method |-> "POST", path |-> "/revise", endpoint |-> "revise_project",
      status_code |-> HTTP_200_OK]}

Routed(r) == \E rt \in Routes : rt.method = r.method /\ rt.path = r.path
RouteOf(r) == CHOOSE rt \in Routes : rt.method = r.method /\ rt.path = r.path
SuccessStatus(endpoint) == (CHOOSE rt \in Routes : rt.endpoint = endpoint).status_code

NoResponse == [status_code |-> 0, body |-> [detail |-> <<>>]]
ErrorResponse(exc) == [status_code |-> exc.status_code, body |-> [detail |-> exc.detail]]

\* the router's answer to a request no route matches
RouterResponse(r) ==
    IF \E rt \in Routes : rt.path = r.path
    THEN [status_code |-> HTTP_405_METHOD_NOT_ALLOWED,
          body |-> [detail |-> <<"Method Not Allowed">>]]
    ELSE [status_code |-> HTTP_404_NOT_FOUND, body |-> [detail |-> <<"Not Found">>]]

\* the answer to a body the request model rejects
ValidationResponse ==
    [status_code |-> HTTP_422_UNPROCESSABLE_ENTITY,
     body |-> [detail |-> <<"validation error">>]]

RootBody ==
    [message |-> "LLM Code Deployer API", version |-> "2.0.0",
     github_integration |-> "enabled", endpoints |-> <<"/build", "/revise">>]

InvalidAuth == HTTPException(HTTP_401_UNAUTHORIZED, <<"Invalid email or secret">>)
BadProjectName ==
    HTTPException(HTTP_400_BAD_REQUEST,
        <<"Project name must contain only alphanumeric characters, hyphens, and underscores">>)
EmptyProjectId == HTTPException(HTTP_400_BAD_REQUEST, <<"Project ID cannot be empty">>)

BuildResponse(r, project_id, repo_url, pages_url) ==
    [status_code |-> SuccessStatus("build_project"),
     body |-> [status |-> "success",
               message |-> <<"Build completed successfully for project '">>
                               \o r.project_name \o <<"'">>,
               project_id |-> project_id,
               repository_url |-> repo_url,
               pages_url |-> pages_url]]

ReviseResponse(r) ==
    [status_code |-> SuccessStatus("revise_project"),
     body |-> [status |-> "success",
               message |-> <<"Revision completed successfully for project '">>
                               \o r.project_id \o <<"'">>]]

\* build_project's except clauses
BuildExceptWrapAll(exc) ==
    HTTPException(HTTP_500_INTERNAL_SERVER_ERROR,
        <<"An error occurred during build: ">> \o exc.detail)

BuildExcept(exc) ==
    IF exc.type = "HTTPException"
    THEN exc
    ELSE HTTPException(HTTP_500_INTERNAL_SERVER_ERROR,
             <<"An error occurred during build: ">> \o exc.detail)

\* build_project before its try block: the exception it raises, if any
BuildChecks(r) ==
    IF ~validate_auth(r.email, r.secret) THEN InvalidAuth
    ELSE IF ~NameMatches(r.project_name) THEN BadProjectName
    ELSE NoException

\* revise_project
ReviseAnswer(r) ==
    IF ~validate_auth(r.email, r.secret) THEN ErrorResponse(InvalidAuth)
    ELSE IF Strip(r.project_id) = <<>> THEN ErrorResponse(EmptyProjectId)
    ELSE ReviseResponse(r)

(***************************************************************************)
(* State.                                                                  *)
(*   GITHUB_TOKEN  the environment variable read at import                 *)
(*   serving       the module was imported without raising                 *)
(*   hashSeed      this process's str hash salt                            *)
(*   pc            where the handler of the current request stands         *)
(*   request       the current request                                     *)
(*   frame         build_project's locals project_id and repo_url          *)
(*   calls         the remote calls issued for the current request, in     *)
(*                 order, each with its answer once it has come            *)
(*   response      the answer sent for the current request                 *)
(*   authCall      a direct call of validate_auth: arguments and result    *)
(***************************************************************************)
VARIABLES GITHUB_TOKEN, serving, hashSeed, pc, request, frame, calls,
          response, authCall

vars == <<GITHUB_TOKEN, serving, hashSeed, pc, request, frame, calls,
          response, authCall>>

NoFrame == [project_id |-> Blank, repo_url |-> None]
NoAuthCall == [email |-> Blank, secret |-> Blank, called |-> FALSE, result |-> FALSE]

\* "if not GITHUB_TOKEN: raise ValueError"
Truthy(opt) == opt.some /\ opt.val # <<>>

Init ==
    /\ GITHUB_TOKEN \in {None, Some(<<>>), Some(<<"ghp_token">>)}
    /\ serving = Truthy(GITHUB_TOKEN)
    /\ hashSeed \in HashSeeds
    /\ pc = "idle"
    /\ request = NoRequest
    /\ frame = NoFrame
    /\ calls = <<>>
    /\ response = NoResponse
    /\ authCall = NoAuthCall

Accepting == serving /\ pc = "idle"

Static == UNCHANGED <<GITHUB_TOKEN, serving, hashSeed, authCall>>

\* the whole handling of a request that makes no remote call
Answer(r, resp) ==
    /\ request' = r
    /\ frame' = NoFrame
    /\ calls' = <<>>
    /\ response' = resp
    /\ pc' = "done"
    /\ Static

\* a request that matches no route
UnroutedOn(r) ==
    /\ ~Routed(r)
    /\ Answer(r, RouterResponse(r))

\* GET /
RootOn(r) ==
    /\ Routed(r) /\ RouteOf(r).endpoint = "root"
    /\ Answer(r, [status_code |-> SuccessStatus("root"), body |-> RootBody])

\* POST /revise
ReviseProjectOn(r) ==
    /\ Answer(r, IF ReviseRequestValid(r) THEN ReviseAnswer(r) ELSE ValidationResponse)

\* POST /build, up to the first remote call
BuildProjectOn(r) ==
    /\ IF ~BuildRequestValid(r)
       THEN Answer(r, ValidationResponse)
       ELSE IF BuildChecks(r) # NoException
       THEN Answer(r, ErrorResponse(BuildChecks(r)))
       ELSE /\ request' = r
            /\ frame' = [project_id |-> ProjectId(hashSeed, r.project_name, r.email),
                         repo_url |-> None]
            /\ calls' = <<[op |-> "create-repository", answer |-> Pending]>>
            /\ response' = NoResponse
            /\ pc' = "create"
            /\ Static

Answered(a) == [calls EXCEPT ![Len(calls)].answer = a]
Issue(log, op) == Append(log, [op |-> op, answer |-> Pending])

\* the try block is left by an exception
Fail(a, exc) ==
    /\ calls' = Answered(a)
    /\ response' = ErrorResponse(BuildExcept(exc))
    /\ pc' = "done"
    /\ UNCHANGED <<request, frame>>
    /\ Static

\* requests.post of create_github_repo returns or raises; repo.get("html_url")
CreateAnsweredWith(a) ==
    /\ LET res == create_github_repo(a)
       IN  IF res.raised THEN Fail(a, res.exc)
           ELSE IF res.value.type # "dict" THEN Fail(a, AttributeError)
           ELSE /\ frame' = [frame EXCEPT !.repo_url = res.value.html_url]
                /\ calls' = Issue(Answered(a), "upload-file")
                /\ pc' = "push"
                /\ UNCHANGED <<request, response>>
                /\ Static

\* requests.put of push_code_to_github returns or raises
PushAnsweredWith(a) ==
    /\ LET res == push_code_to_github(a)
       IN  IF res.raised THEN Fail(a, res.exc)
           ELSE /\ calls' = Issue(Answered(a), "enable-pages")
                /\ pc' = "pages"
                /\ UNCHANGED <<request, frame, response>>
                /\ Static

\* requests.post of enable_github_pages returns or raises; pages_info.get
PagesAnsweredWith(a) ==
    /\ LET res == enable_github_pages(a, request.project_name, request.github_username)
       IN  IF res.raised THEN Fail(a, res.exc)
           ELSE /\ calls' = Answered(a)
                /\ response' = BuildResponse(request, frame.project_id,
                                             frame.repo_url, res.value.pages_url)
                /\ pc' = "done"
                /\ UNCHANGED <<request, frame>>
                /\ Static

\* the response has gone out; nothing of the request is kept
Sent ==
    /\ pc = "done"
    /\ pc' = "idle"
    /\ request' = NoRequest
    /\ frame' = NoFrame
    /\ calls' = <<>>
    /\ response' = NoResponse
    /\ Static

Unrouted == Accepting /\ \E r \in BareRequests : UnroutedOn(r)
Root == Accepting /\ \E r \in BareRequests : RootOn(r)
BuildProject == Accepting /\ \E r \in BuildRequests : BuildProjectOn(r)
ReviseProject == Accepting /\ \E r \in ReviseRequests : ReviseProjectOn(r)
CreateAnswered == pc = "create" /\ \E a \in Answers : CreateAnsweredWith(a)
PushAnswered == pc = "push" /\ \E a \in Answers : PushAnsweredWith(a)
PagesAnswered == pc = "pages" /\ \E a \in Answers : PagesAnsweredWith(a)

Next ==
    \/ Sent
    \/ Unrouted
    \/ Root
    \/ BuildProject
    \/ ReviseProject
    \/ CreateAnswered
    \/ PushAnswered
    \/ PagesAnswered

Spec == Init /\ [][Next]_vars

(***************************************************************************)
(* validate_auth called directly, on every pair of arguments.              *)
(***************************************************************************)
AuthEmails == SeqsUpTo({"u", "@"}, MaxAuthEmailLen)

InitAuth ==
    /\ GITHUB_TOKEN = Some(<<"ghp_token">>)
    /\ serving = TRUE
    /\ hashSeed \in HashSeeds
    /\ pc = "idle"
    /\ request = NoRequest
    /\ frame = NoFrame
    /\ calls = <<>>
    /\ response = NoResponse
    /\ \E e \in AuthEmails, s \in Secrets :
           authCall = [email |-> e, secret |-> s, called |-> FALSE, result |-> FALSE]

CallValidateAuth ==
    /\ ~authCall.called
    /\ authCall' = [authCall EXCEPT !.called = TRUE,
                                    !.result = validate_auth(authCall.email, authCall.secret)]
    /\ UNCHANGED <<GITHUB_TOKEN, serving, hashSeed, pc, request, frame, calls, response>>

NextAuth == CallValidateAuth

SpecAuth == InitAuth /\ [][NextAuth]_vars

(***************************************************************************)
(* Properties.                                                             *)
(***************************************************************************)
Done == pc = "done"
IsPost(path) == request.method = "POST" /\ request.path = path
LastAnswer == calls[Len(calls)].answer
Returned(i) == calls[i].answer.kind = "response"
ErrorWith(code, detail) == [status_code |-> code, body |-> [detail |-> detail]]
IsError == DOMAIN response.body = {"detail"}
CallOrder == <<"create-repository", "upload-file", "enable-pages">>

\* C1: within one POST /build request the remote operations are issued only
\* in the order create-repository, upload-file, enable-pages, each at most
\* once; upload-file only after create-repository answered 201, enable-pages
\* only after upload-file answered 200 or 201.
C1_CallOrder ==
    /\ Len(calls) <= 3
    /\ \A i \in 1..Len(calls) : calls[i].op = CallOrder[i]
    /\ calls # <<>> => IsPost("/build")
    /\ Len(calls) >= 2 => Returned(1) /\ calls[1].answer.status_code = 201
    /\ Len(calls) >= 3 => Returned(2) /\ calls[2].answer.status_code \in {200, 201}

C1_Witness == Len(calls) = 3 /\ calls[3].answer = Pending

\* C2: POST /build with valid inputs, the remote answering 201 to
\* create-repository, 200 to upload-file and 204 to enable-pages, is answered
\* with status 201 and a BuildResponse whose repository_url and pages_url
\* are both non-null.
C2_Created ==
    (/\ Done /\ IsPost("/build")
     /\ Len(calls) = 3
     /\ Returned(1) /\ calls[1].answer.status_code = 201
     /\ Returned(2) /\ calls[2].answer.status_code = 200
     /\ Returned(3) /\ calls[3].answer.status_code = 204)
    => /\ response.status_code = 201
       /\ ~IsError
       /\ response.body.repository_url # None
       /\ response.body.pages_url # None

\* C3: every POST /build or POST /revise request whose secret is shorter than
\* 8 characters or whose email contains no "@" is answered with 401, and for
\* /build before the project_name check and before any remote operation.
C3_Unauthorized ==
    (/\ pc # "idle"
     /\ IsPost("/build") \/ IsPost("/revise")
     /\ Len(request.secret) < 8 \/ ~Contains(request.email, "@"))
    => /\ Done
       /\ calls = <<>>
       /\ response = ErrorWith(401, <<"Invalid email or secret">>)

\* C4: every authenticated POST /build request whose project_name contains a
\* character outside A-Z, a-z, 0-9, "_" and "-" is answered with 400 and no
\* remote operation is issued.
C4_BadName ==
    (/\ pc # "idle"
     /\ IsPost("/build")
     /\ BuildRequestValid(request)
     /\ Len(request.secret) >= 8 /\ Contains(request.email, "@")
     /\ \E i \in 1..Len(request.project_name) :
            request.project_name[i] \notin NameClass)
    => /\ Done
       /\ calls = <<>>
       /\ response.status_code = 400

\* C5: when create-repository and upload-file succeed and enable-pages
\* returns a non-2xx status, POST /build still succeeds: a success
\* BuildResponse with pages_url null, and repository_url and project_id as
\* they are when pages are enabled (the create answer's html_url, and the
\* name joined to hash(email) mod 100000).
C5_PagesTolerated ==
    (/\ Done
     /\ Len(calls) = 3
     /\ Returned(3) /\ calls[3].answer.status_code \notin 200..299)
    => /\ response.status_code \in 200..299
       /\ response.body =
            [status |-> "success",
             message |-> <<"Build completed successfully for project '">>
                             \o request.project_name \o <<"'">>,
             project_id |-> request.project_name \o <<"-">>
                             \o IntToStr(PyHash(hashSeed, request.email) % 100000),
             repository_url |-> JsonLoads(calls[1].answer.text).html_url,
             pages_url |-> None]

C5_Witness ==
    /\ Done /\ Len(calls) = 3
    /\ Returned(3) /\ calls[3].answer.status_code = 404
    /\ calls[1].answer.text = BodyRepo

\* C6: if create-repository answers with a status other than 201, or
\* upload-file with a status other than 200 or 201, POST /build is answered
\* with a 500 whose detail carries the raw remote response body, and no
\* success BuildResponse is produced.
C6_RemoteFailure ==
    (/\ Done
     /\ \/ Len(calls) = 1 /\ Returned(1) /\ calls[1].answer.status_code # 201
        \/ Len(calls) = 2 /\ Returned(2) /\ calls[2].answer.status_code \notin {200, 201})
    => /\ response.status_code = 500
       /\ IsError
       /\ IsInfix(LastAnswer.text, response.body.detail)

C6_Witness ==
    /\ Done /\ Len(calls) = 2
    /\ Returned(2) /\ calls[2].answer.status_code = 404

\* C7: for every POST /revise request with valid authentication the answer is
\* 400 if project_id is empty after trimming whitespace, and otherwise 200
\* with a success ReviseResponse whose message contains that project_id; no
\* remote operation is issued.  (Stated for requests whose email is a valid
\* address and whose changes text is not empty.)
C7_Revise ==
    (/\ Done /\ IsPost("/revise")
     /\ Len(request.secret) >= 8 /\ IsEmailStr(request.email)
     /\ request.changes # <<>>)
    => /\ calls = <<>>
       /\ IF Strip(request.project_id) = <<>>
          THEN response.status_code = 400
          ELSE /\ response.status_code = 200
               /\ ~IsError
               /\ response.body.status = "success"
               /\ IsInfix(request.project_id, response.body.message)

\* C8: the service exposes four routes (root info, health check, build,
\* revise), and GET /health is always answered with the body
\* {"status":"healthy","service":"llm-code-deployer"}.
C8_Health ==
    (Done /\ request.method = "GET" /\ request.path = "/health")
    => /\ Cardinality(Routes) = 4
       /\ response.body = [status |-> "healthy", service |-> "llm-code-deployer"]

\* what the helper of the last call did with its answer
LastResult ==
    CASE Len(calls) = 1 -> create_github_repo(LastAnswer)
      [] Len(calls) = 2 -> push_code_to_github(LastAnswer)
      [] Len(calls) = 3 -> enable_github_pages(LastAnswer, request.project_name,
                                               request.github_username)

\* C9: an unexpected (non-HTTP-error) exception raised during the remote
\* steps of POST /build (no connection in any of the three calls, a body that
\* is not JSON, a JSON body that is no object) is answered with a 500
\* carrying the exception's text; an HTTP error raised by a helper passes
\* through with its own status and detail.
C9_Exceptions ==
    (Done /\ calls # <<>>)
    => /\ LastAnswer.kind = "raise"
            => /\ response.status_code = 500 /\ IsError
               /\ IsSuffix(LastAnswer.text, response.body.detail)
               /\ response.body.detail # LastAnswer.text
       /\ (LastAnswer.kind = "response" /\ LastResult.raised)
            => IF LastResult.exc.type = "HTTPException"
               THEN response = ErrorWith(LastResult.exc.status_code, LastResult.exc.detail)
               ELSE /\ response.status_code = 500 /\ IsError
                    /\ IsSuffix(LastResult.exc.detail, response.body.detail)
       /\ (Len(calls) = 1 /\ Returned(1) /\ LastAnswer.status_code = 201
             /\ LastAnswer.text = BodyList)
            => /\ response.status_code = 500 /\ IsError
               /\ IsSuffix(AttributeError.detail, response.body.detail)

C9_Witness ==
    /\ Done /\ Len(calls) = 3
    /\ LastAnswer.kind = "raise"
    /\ response.status_code = 500

\* C10: validate_auth(email, secret) is true if and only if the secret has at
\* least 8 characters and the email contains "@".
C10_ValidateAuth ==
    authCall.called =>
        /\ authCall.result <=>
             (Len(authCall.secret) >= 8
                /\ \E i \in 1..Len(authCall.email) : authCall.email[i] = "@")
        /\ Len(authCall.secret) < 8 => ~authCall.result
        /\ (\A i \in 1..Len(authCall.email) : authCall.email[i] # "@") => ~authCall.result

C10_Witness ==
    /\ authCall.called /\ authCall.result
    /\ Len(authCall.secret) = 8
=============================================================================
